---- MODULE Spec2Model ----
(***************************************************************************)
(* Model of the arc forward pass of aklein4/QLM                            *)
(*   src/src/deprecated/models/arc.py   ArcLmModel                         *)
(*   src/src/trainers/xla_arc_trainer.py  XLALMTrainer.train_step          *)
(*                                                                         *)
(* Tensors of token ids, labels and mask bits are sequences of rows        *)
(* (1-indexed here, 0-indexed in the source: source index p is p+1 here).  *)
(* In a mask TRUE means "blocked".  Hidden states are kept as one tag per  *)
(* (row, position) naming the backbone pass and position that produced it. *)
(***************************************************************************)
EXTENDS Integers, Sequences, FiniteSets, TLC

\* ----------------------------------------------------------------- bounds
MaxElems == 3
MaxTok == 1
MaxCalls == 2

Vocab == 0..MaxTok
Calls == 1..MaxCalls
None == <<>>

Min(a, b) == IF a < b THEN a ELSE b
Max(a, b) == IF a > b THEN a ELSE b

\* every [batch, len] tensor over S with batch >= 1, len >= 1, batch*len <= MaxElems
TensorsOver(S) ==
  UNION { [1..B -> [1..L -> S]] :
            <<B, L>> \in { s \in (1..MaxElems) \X (1..MaxElems) : s[1] * s[2] <= MaxElems } }

Batches == TensorsOver(Vocab)

\* ------------------------------------------------------- tensor primitives
Shape(T) == <<Len(T), Len(T[1])>>

\* torch.ones(n, m, dtype=bool)
Ones(n, m) == [i \in 1..n |-> [j \in 1..m |-> TRUE]]

\* torch.triu(M, diagonal=d): keeps the elements with j - i >= d, zeroes the rest
Triu(M, d) ==
  [i \in 1..Len(M) |-> [j \in 1..Len(M[i]) |-> IF j - i >= d THEN M[i][j] ELSE FALSE]]

\* torch.eye(n, dtype=bool)
Eye(n) == [i \in 1..n |-> [j \in 1..n |-> i = j]]

\* ~M
Invert(M) == [i \in 1..Len(M) |-> [j \in 1..Len(M[i]) |-> ~M[i][j]]]

\* torch.cat([A, B], dim=1) and torch.cat([A, B], dim=0) of 2-d tensors
CatDim1(A, B) == [i \in 1..Len(A) |-> A[i] \o B[i]]
CatDim0(A, B) == A \o B

\* torch.arange(n)
Arange(n) == [i \in 1..n |-> i - 1]

\* a python slice bound k on a dimension of size n
SliceBound(k, n) == IF k < 0 THEN Max(0, n + k) ELSE Min(k, n)

\* T[:, lo:hi] with python (0-based, hi exclusive, negative = from the end) bounds
Cols(T, lo, hi) ==
  LET n == Len(T[1])
      a == SliceBound(lo, n)
      b == SliceBound(hi, n)
  IN  [r \in 1..Len(T) |-> SubSeq(T[r], a + 1, b)]

\* T[:, lo:hi] = V
SetCols(T, lo, hi, V) ==
  LET n == Len(T[1])
      a == SliceBound(lo, n)
      b == SliceBound(hi, n)
  IN  [r \in 1..Len(T) |->
        [t \in 1..n |-> IF t > a /\ t <= b THEN V[r][t - a] ELSE T[r][t]]]

\* T[:, lo:hi] = v  (a scalar)
FillCols(T, lo, hi, v) ==
  LET n == Len(T[1])
      a == SliceBound(lo, n)
      b == SliceBound(hi, n)
  IN  [r \in 1..Len(T) |-> [t \in 1..n |-> IF t > a /\ t <= b THEN v ELSE T[r][t]]]

\* T[:, k] = v
FillCol(T, k, v) ==
  [r \in 1..Len(T) |-> [t \in 1..Len(T[r]) |-> IF t = k + 1 THEN v ELSE T[r][t]]]

\* torch.masked_fill(T, M, v)
MaskedFill(T, M, v) ==
  [r \in 1..Len(T) |-> [t \in 1..Len(T[r]) |-> IF M[r][t] THEN v ELSE T[r][t]]]

\* T == v, elementwise
EqScalar(T, v) == [r \in 1..Len(T) |-> [t \in 1..Len(T[r]) |-> T[r][t] = v]]

\* torch.ones(n, m) of integers
IntOnes(n, m) == [r \in 1..n |-> [t \in 1..m |-> 1]]

\* ------------------------------------------------------------------- state
VARIABLES
  call,     \* call[c]: the frame of forward invocation c (its arguments and locals)
  heap,     \* the DynamicCache objects created so far, in creation order
  h_ids,    \* harness: the input_ids handed to direct calls of the two builders
  h_mask,   \* harness: h_mask[cached] = last result of _get_arc_mask(h_ids, cached)
  h_pos     \* harness: h_pos[cached] = last result of _get_arc_position_ids(h_ids, cached)

vars == <<call, heap, h_ids, h_mask, h_pos>>

IdleFrame ==
  [pc |-> "idle", caller |-> "none",
   input_ids |-> None, pad_token_id |-> 0, debug |-> FALSE,
   kv |-> 0, out |-> None, sample |-> None, neg_ids |-> None, arc_ids |-> None,
   arc_mask |-> None, arc_position_ids |-> None, arc_out |-> None,
   arc_states |-> None, arc_preds |-> None, arc_targets |-> None]

\* ------------------------------------------------- ArcLmModel._get_arc_mask
\* faulty variant: cached mode returns the top half
CachedTopHalfMask(input_ids, cached) ==
  LET seq_length == Shape(input_ids)[2]
      full_mask == Ones(seq_length, seq_length)
      nw == Triu(full_mask, 1)
      sw == Triu(full_mask, 0)
      ne == full_mask
      se == Invert(Eye(seq_length))
  IN  IF cached
        THEN CatDim1(nw, ne)
        ELSE CatDim0(CatDim1(nw, ne), CatDim1(sw, se))

\* faulty variant: the cross block leaves the diagonal open
CrossSeesOwnIndexMask(input_ids, cached) ==
  LET seq_length == Shape(input_ids)[2]
      full_mask == Ones(seq_length, seq_length)
      nw == Triu(full_mask, 1)
      sw == Triu(full_mask, 1)
      ne == full_mask
      se == Invert(Eye(seq_length))
  IN  IF cached
        THEN CatDim1(sw, se)
        ELSE CatDim0(CatDim1(nw, ne), CatDim1(sw, se))

\* faulty variant: the second half is blocked entirely
SelfBlockedMask(input_ids, cached) ==
  LET seq_length == Shape(input_ids)[2]
      full_mask == Ones(seq_length, seq_length)
      nw == Triu(full_mask, 1)
      sw == Triu(full_mask, 0)
      ne == full_mask
      se == full_mask
  IN  IF cached
        THEN CatDim1(sw, se)
        ELSE CatDim0(CatDim1(nw, ne), CatDim1(sw, se))

\* faulty variant: the second half is causal instead of self-only
CausalSecondHalfMask(input_ids, cached) ==
  LET seq_length == Shape(input_ids)[2]
      full_mask == Ones(seq_length, seq_length)
      nw == Triu(full_mask, 1)
      sw == Triu(full_mask, 0)
      ne == full_mask
      se == Triu(full_mask, 1)
  IN  IF cached
        THEN CatDim1(sw, se)
        ELSE CatDim0(CatDim1(nw, ne), CatDim1(sw, se))

_get_arc_mask(input_ids, cached) ==
  LET seq_length == Shape(input_ids)[2]
      full_mask == Ones(seq_length, seq_length)     \* mask with no attention
      nw == Triu(full_mask, 1)                      \* self attending
      sw == Triu(full_mask, 0)                      \* cross attending
      ne == full_mask                               \* empty
      se == Invert(Eye(seq_length))                 \* only self
  IN  IF cached
        THEN CatDim1(sw, se)
        ELSE CatDim0(CatDim1(nw, ne), CatDim1(sw, se))

\* ----------------------------------------- ArcLmModel._get_arc_position_ids
_get_arc_position_ids(input_ids, cached) ==
  LET seq_length == Shape(input_ids)[2]
      position_ids == Arange(seq_length)
  IN  IF cached THEN position_ids ELSE position_ids \o position_ids

\* ------------------------------------------------------ the backbone (external)
\* self.model(ids, attention_mask, position_ids, kv): one hidden state per input
\* position; the state is tagged with the cache slot its key/value is appended at
BackboneOut(h, k, ids) ==
  [r \in 1..Len(ids) |-> [t \in 1..Len(ids[r]) |->
      [slot |-> h[k].len + t - 1, token |-> ids[r][t]]]]

\* the cache after that call: append semantics, and the record of the call
BackboneCache(h, k, c, ids, mask, pos) ==
  [h EXCEPT ![k] = [@ EXCEPT
      !.len = @ + Len(ids[1]),
      !.uses = Append(@, [call |-> c, input_ids |-> ids,
                          attention_mask |-> mask, position_ids |-> pos])]]

\* ------------------------------------------------------ ArcLmModel.forward
\* kv = DynamicCache(): a new, empty cache object owned by the creating call
\* faulty variant: one cache shared by every call
SharedModuleCache(h, c) ==
  IF h = <<>> THEN <<[owner |-> c, len |-> 0, uses |-> <<>>]>> ELSE h

DynamicCache(h, c) == Append(h, [owner |-> c, len |-> 0, uses |-> <<>>])

\* neg_ids after lines 112-115
\* faulty variant: the debug branch is skipped
SampledEvenInDebug(input_ids, sample, debug_flag) == sample

NegIds(input_ids, sample, debug_flag) ==
  IF debug_flag
    THEN SetCols(input_ids, 0, -1, Cols(input_ids, 1, Len(input_ids[1])))
    ELSE sample

\* arc_ids, lines 118-124
\* faulty variant: the negatives are not shifted
UnshiftedArcIds(input_ids, neg_ids) ==
  CatDim1(Cols(input_ids, 0, 1), Cols(neg_ids, 1, Len(neg_ids[1])))

ArcIds(input_ids, neg_ids) ==
  CatDim1(Cols(input_ids, 0, 1), Cols(neg_ids, 0, -1))

\* arc_states, lines 135-141
\* faulty variant: the primary states are dropped
ArcOutOnly(out, arc_out) == arc_out

ArcStates(out, arc_out) == CatDim1(out, arc_out)

\* arc_preds, lines 145-149: the scalar head, [:, :, 0], then the stacked pair
ArcPreds(arc_states) ==
  LET head == [r \in 1..Len(arc_states) |-> [t \in 1..Len(arc_states[r]) |->
                 <<[score_of |-> arc_states[r][t]]>>]]
      arc_preds == [r \in 1..Len(head) |-> [t \in 1..Len(head[r]) |-> head[r][t][1]]]
  IN  [r \in 1..Len(arc_preds) |-> [t \in 1..Len(arc_preds[r]) |->
         << [half |-> -1, of |-> arc_preds[r][t]],
            [half |-> 1, of |-> arc_preds[r][t]] >>]]

\* arc_targets, lines 152-162
\* faulty variant: the boundary of the second half keeps its label
SecondBoundaryKept(input_ids, pad) ==
  LET batch_size == Shape(input_ids)[1]
      seq_length == Shape(input_ids)[2]
      t0 == IntOnes(batch_size, 2 * seq_length)
      t1 == FillCols(t0, 0, seq_length, 0)
      t2 == FillCol(t1, 0, -1)
  IN  MaskedFill(t2, EqScalar(CatDim1(input_ids, input_ids), pad), -1)

ArcTargets(input_ids, pad) ==
  LET batch_size == Shape(input_ids)[1]
      seq_length == Shape(input_ids)[2]
      t0 == IntOnes(batch_size, 2 * seq_length)
      t1 == FillCols(t0, 0, seq_length, 0)
      t2 == FillCol(t1, 0, -1)
      t3 == FillCol(t2, seq_length, -1)
  IN  MaskedFill(t3, EqScalar(CatDim1(input_ids, input_ids), pad), -1)

\* Binding of a positional argument list to forward(self, input_ids, pad_token_id,
\* debug=False): the parameters without a default that no argument reaches
MissingArgs(args) ==
  { <<"input_ids", "pad_token_id">>[i] : i \in (Len(args) + 1)..2 }

\* forward, lines 100-108: entry, the cache, the first backbone pass
ForwardEnter(c, args, who) ==
  /\ IF MissingArgs(args) # {}
       THEN /\ call' = [call EXCEPT ![c] = [@ EXCEPT !.pc = "TypeError", !.caller = who]]
            /\ UNCHANGED heap
       ELSE LET input_ids == args[1]
                pad == args[2]
                dbg == IF Len(args) >= 3 THEN args[3] ELSE FALSE
                h1 == DynamicCache(heap, c)
                kv == Len(h1)
            IN  /\ heap' = BackboneCache(h1, kv, c, input_ids, None, None)
                /\ call' = [call EXCEPT ![c] = [@ EXCEPT
                      !.pc = "first", !.caller = who,
                      !.input_ids = input_ids, !.pad_token_id = pad, !.debug = dbg,
                      !.kv = kv, !.out = BackboneOut(h1, kv, input_ids)]]
  /\ UNCHANGED <<h_ids, h_mask, h_pos>>

\* a caller that follows forward's signature, over the batches B and pad ids P
Forward(c, B, P) ==
  /\ call[c].pc = "idle"
  /\ \E input_ids \in B, pad \in P, dbg \in BOOLEAN :
       ForwardEnter(c, <<input_ids, pad, dbg>>, "direct")

\* XLALMTrainer.train_step of xla_arc_trainer.py: out = model(x), x among B
TrainStep(c, B) ==
  /\ call[c].pc = "idle"
  /\ \E x \in B : ForwardEnter(c, <<x>>, "train_step")

\* dist.sample(): one vocabulary id per (row, position) of lm_logits
Samples(input_ids, V) == [1..Len(input_ids) -> [1..Len(input_ids[1]) -> V]]

\* forward, lines 110-134: the negative samples, the arc inputs, the second pass
SecondPass(c, V) ==
  /\ call[c].pc = "first"
  /\ \E draw \in Samples(call[c].input_ids, V) :
       LET f == call[c]
           neg_ids == NegIds(f.input_ids, draw, f.debug)
           arc_ids == ArcIds(f.input_ids, neg_ids)
           arc_mask == _get_arc_mask(f.input_ids, TRUE)
           arc_position_ids == _get_arc_position_ids(f.input_ids, TRUE)
       IN  /\ heap' = BackboneCache(heap, f.kv, c, arc_ids, arc_mask, arc_position_ids)
           /\ call' = [call EXCEPT ![c] = [@ EXCEPT
                 !.pc = "second", !.sample = draw, !.neg_ids = neg_ids,
                 !.arc_ids = arc_ids, !.arc_mask = arc_mask,
                 !.arc_position_ids = arc_position_ids,
                 !.arc_out = BackboneOut(heap, f.kv, arc_ids)]]
  /\ UNCHANGED <<h_ids, h_mask, h_pos>>

\* forward, lines 135-168: the combined states, the predictions, the targets
Return(c) ==
  /\ call[c].pc = "second"
  /\ LET f == call[c]
         arc_states == ArcStates(f.out, f.arc_out)
     IN  call' = [call EXCEPT ![c] = [@ EXCEPT
               !.pc = "done", !.arc_states = arc_states,
               !.arc_preds = ArcPreds(arc_states),
               !.arc_targets = ArcTargets(f.input_ids, f.pad_token_id)]]
  /\ UNCHANGED <<heap, h_ids, h_mask, h_pos>>

\* direct calls of the two builders, in either mode
GetArcMask(cached) ==
  /\ h_mask' = [h_mask EXCEPT ![cached] = _get_arc_mask(h_ids, cached)]
  /\ UNCHANGED <<call, heap, h_ids, h_pos>>

GetArcPositionIds(cached) ==
  /\ h_pos' = [h_pos EXCEPT ![cached] = _get_arc_position_ids(h_ids, cached)]
  /\ UNCHANGED <<call, heap, h_ids, h_mask>>

\* ---------------------------------------------------------- specifications
NoCalls == [c \in Calls |-> IdleFrame]
NoResult == [cached \in BOOLEAN |-> None]

\* Spec: one forward invocation over every batch, pad id, debug flag and draw
Init ==
  /\ call = NoCalls
  /\ heap = <<>>
  /\ h_ids = None
  /\ h_mask = NoResult
  /\ h_pos = NoResult

Next ==
  \/ Forward(1, Batches, Vocab)
  \/ TrainStep(1, Batches)
  \/ SecondPass(1, Vocab)
  \/ Return(1)

Spec == Init /\ [][Next]_vars

\* SpecMask: the two builders called directly on every batch shape
InitMask ==
  /\ call = NoCalls
  /\ heap = <<>>
  /\ h_ids \in Batches
  /\ h_mask = NoResult
  /\ h_pos = NoResult

NextMask ==
  \/ \E cached \in BOOLEAN : GetArcMask(cached)
  \/ \E cached \in BOOLEAN : GetArcPositionIds(cached)

SpecMask == InitMask /\ [][NextMask]_vars

\* SpecCalls: MaxCalls forward invocations, their steps interleaved in every order;
\* the batches are single rows of token 0 (cache use does not depend on the tokens)
CallBatches == { b \in TensorsOver({0}) : Len(b) = 1 }

NextCalls ==
  \/ \E c \in Calls : Forward(c, CallBatches, {0})
  \/ \E c \in Calls : TrainStep(c, CallBatches)
  \/ \E c \in Calls : SecondPass(c, {0})
  \/ \E c \in Calls : Return(c)

SpecCalls == Init /\ [][NextCalls]_vars

\* ------------------------------------------------------------------ claims
Started(c) == call[c].pc \in {"first", "second", "done"}
Sampled(c) == call[c].pc \in {"second", "done"}
SeqLen(c) == Len(call[c].input_ids[1])
BatchSize(c) == Len(call[c].input_ids)

\* the key positions (0-based) that query row i (0-based) of mask M may attend to
Allowed(M, i) == { j \in 0..(Len(M[i + 1]) - 1) : ~M[i + 1][j + 1] }

\* C1: the arc target of a finished forward call has 2L labels per row; label p is
\* -1 when p = 0, p = L or the original token at p mod L is the pad id, and is
\* otherwise 0 in the first half and 1 in the second half.
C1_ArcTargetLabels ==
  \A c \in Calls : call[c].pc = "done" =>
    LET f == call[c]
        L == SeqLen(c)
    IN  /\ Len(f.arc_targets) = BatchSize(c)
        /\ \A b \in 1..BatchSize(c) :
             /\ Len(f.arc_targets[b]) = 2 * L
             /\ \A p \in 0..(2 * L - 1) :
                  f.arc_targets[b][p + 1] =
                    IF p = 0 \/ p = L \/ f.input_ids[b][(p % L) + 1] = f.pad_token_id
                      THEN -1
                      ELSE IF p < L THEN 0 ELSE 1

\* a finished call whose row holds a pad token away from the boundaries and a
\* non-pad token in each half
C1_Witness ==
  \E c \in Calls :
    /\ call[c].pc = "done"
    /\ SeqLen(c) >= 3
    /\ \E b \in 1..BatchSize(c) :
         /\ \E t \in 2..SeqLen(c) : call[c].input_ids[b][t] = call[c].pad_token_id
         /\ \E t \in 2..SeqLen(c) :
              /\ call[c].arc_targets[b][t] = 0
              /\ call[c].arc_targets[b][SeqLen(c) + t] = 1

\* the mask handed to the second backbone pass of call c
SecondPassMask(c) == heap[call[c].kv].uses[2].attention_mask

\* C2 as stated: in the second pass an arc position i may attend only to
\* first-half positions j < i, so never to the injected token at its own index.
C2_Original ==
  \A c \in Calls : Sampled(c) =>
    \A i \in 0..(SeqLen(c) - 1) :
      \A j \in Allowed(SecondPassMask(c), i) : j < SeqLen(c) /\ j < i

\* C2 amended: in the second pass an arc position i may attend only to first-half
\* (real, cached) positions j < i and to its own arc position L + i; it attends
\* neither to the real token at its own index i nor to any other arc position.
C2_ArcAttendsEarlierRealAndSelf ==
  \A c \in Calls : Sampled(c) =>
    /\ SecondPassMask(c) = call[c].arc_mask
    /\ \A i \in 0..(SeqLen(c) - 1) :
         /\ \A j \in Allowed(SecondPassMask(c), i) : j < i \/ j = SeqLen(c) + i
         /\ i \notin Allowed(SecondPassMask(c), i)

\* a second pass over at least three positions, its last one attending to real context
C2_Witness ==
  \E c \in Calls :
    /\ Sampled(c)
    /\ SeqLen(c) >= 3
    /\ 0 \in Allowed(SecondPassMask(c), SeqLen(c) - 1)

\* C3: the uncached mask is 2L x 2L with quadrants (TRUE = blocked)
\* top-left j > i, top-right all blocked, bottom-left j >= i, bottom-right i # j.
C3_UncachedQuadrants ==
  h_mask[FALSE] # None =>
    LET M == h_mask[FALSE]
        L == Len(h_ids[1])
    IN  /\ Len(M) = 2 * L
        /\ \A r \in 1..(2 * L) : Len(M[r]) = 2 * L
        /\ \A i \in 0..(L - 1), j \in 0..(L - 1) :
             /\ M[i + 1][j + 1] = (j > i)
             /\ M[i + 1][L + j + 1] = TRUE
             /\ M[L + i + 1][j + 1] = (j >= i)
             /\ M[L + i + 1][L + j + 1] = (i # j)

\* an uncached mask was built for a sequence of at least three positions
C3_Witness ==
  /\ h_mask[FALSE] # None
  /\ Len(h_ids[1]) >= 3

\* C4: the cached mask is [L, 2L], the uncached one [2L, 2L], and the cached mask
\* is the bottom half of the uncached one.
C4_CachedIsBottomHalf ==
  LET L == Len(h_ids[1])
      C == h_mask[TRUE]
      U == h_mask[FALSE]
  IN  /\ C # None => Len(C) = L /\ \A i \in 1..L : Len(C[i]) = 2 * L
      /\ U # None => Len(U) = 2 * L /\ \A i \in 1..(2 * L) : Len(U[i]) = 2 * L
      /\ (C # None /\ U # None) =>
           \A i \in 0..(L - 1), j \in 0..(2 * L - 1) : C[i + 1][j + 1] = U[L + i + 1][j + 1]

\* both masks were built for the same sequence of at least two positions
C4_Witness ==
  /\ h_mask[TRUE] # None
  /\ h_mask[FALSE] # None
  /\ Len(h_ids[1]) >= 2

\* C5: the arc input has length L, starts with the first real token and continues
\* with the negative samples shifted by one; it is what the second pass is run on,
\* and the last negative sample is not part of it.
C5_ArcIdsShifted ==
  \A c \in Calls : Sampled(c) =>
    LET f == call[c]
        L == SeqLen(c)
    IN  /\ heap[f.kv].uses[2].input_ids = f.arc_ids
        /\ Len(f.arc_ids) = BatchSize(c)
        /\ \A b \in 1..BatchSize(c) :
             /\ Len(f.arc_ids[b]) = L
             /\ f.arc_ids[b][1] = f.input_ids[b][1]
             /\ \A t \in 1..(L - 1) : f.arc_ids[b][t + 1] = f.neg_ids[b][t]

\* a sampled call whose last negative sample occurs nowhere in the arc input
C5_Witness ==
  \E c \in Calls :
    /\ Sampled(c)
    /\ ~call[c].debug
    /\ SeqLen(c) >= 2
    /\ \A t \in 1..SeqLen(c) : call[c].arc_ids[1][t] # call[c].neg_ids[1][SeqLen(c)]

\* C6: with debug set the negative samples are the input shifted left by one, the
\* last token kept, whatever the sampler drew.
C6_DebugNegIdsFromInput ==
  \A c \in Calls : (Sampled(c) /\ call[c].debug) =>
    LET f == call[c]
        L == SeqLen(c)
    IN  /\ Len(f.neg_ids) = BatchSize(c)
        /\ \A b \in 1..BatchSize(c) :
             /\ Len(f.neg_ids[b]) = L
             /\ \A t \in 0..(L - 2) : f.neg_ids[b][t + 1] = f.input_ids[b][t + 2]
             /\ f.neg_ids[b][L] = f.input_ids[b][L]

\* a debug call whose draw differed from the negative samples it went on with
C6_Witness ==
  \E c \in Calls :
    /\ Sampled(c)
    /\ call[c].debug
    /\ SeqLen(c) >= 2
    /\ call[c].sample # call[c].neg_ids
    /\ call[c].neg_ids # call[c].input_ids

ExpectedUses(o) ==
  LET f == call[o]
      first == [call |-> o, input_ids |-> f.input_ids,
                attention_mask |-> None, position_ids |-> None]
      second == [call |-> o, input_ids |-> f.arc_ids,
                 attention_mask |-> _get_arc_mask(f.input_ids, TRUE),
                 position_ids |-> _get_arc_position_ids(f.input_ids, TRUE)]
  IN  IF f.pc = "first" THEN <<first>> ELSE <<first, second>>

CacheOwned ==
  /\ \A k \in 1..Len(heap) :
       LET o == heap[k].owner
       IN  /\ Started(o)
           /\ call[o].kv = k
           /\ heap[k].uses = ExpectedUses(o)
           /\ heap[k].len = SeqLen(o) * Len(heap[k].uses)
  /\ \A c \in Calls : Started(c) => call[c].kv \in 1..Len(heap)

IsPrefix(s, t) == Len(s) <= Len(t) /\ SubSeq(t, 1, Len(s)) = s

CacheGrows ==
  \A k \in 1..Len(heap) :
    /\ k <= Len(heap')
    /\ heap'[k].owner = heap[k].owner
    /\ heap'[k].len >= heap[k].len
    /\ IsPrefix(heap[k].uses, heap'[k].uses)

\* C8: under any interleaving of forward calls every cache belongs to the call that
\* created it and has been used only by that call: first by the real pass with no
\* mask and no position ids, then by the arc pass with the cached-mode mask and
\* position ids; it holds L positions after the first and 2L after the second, and
\* is never shrunk.
C8_CacheOwnedByOneCall == [](CacheOwned) /\ [][CacheGrows]_vars

\* a call ran both its passes between the two passes of a call that started earlier
C8_Witness ==
  \E c \in Calls, d \in Calls :
    /\ call[c].pc = "first"
    /\ Sampled(d)
    /\ call[d].kv > call[c].kv
    /\ heap[call[c].kv].len = SeqLen(c)
    /\ heap[call[d].kv].len = 2 * SeqLen(d)

\* C9: the forward call made by the arc trainer's train_step supplies the pad
\* token id, so it never fails for a missing argument.
C9_TrainStepSuppliesPad ==
  \A c \in Calls : call[c].caller = "train_step" => call[c].pc # "TypeError"

\* C10: in both modes no row of the mask is fully blocked: first-half row i allows
\* exactly the i+1 positions 0..i, second-half row i allows exactly the first-half
\* positions 0..i-1 and its own second-half position L+i.
C10_NoRowFullyBlocked ==
  LET L == Len(h_ids[1])
      C == h_mask[TRUE]
      U == h_mask[FALSE]
  IN  /\ C # None =>
           \A i \in 0..(L - 1) :
             /\ Allowed(C, i) # {}
             /\ Allowed(C, i) = (0..(i - 1)) \cup {L + i}
      /\ U # None =>
           \A i \in 0..(L - 1) :
             /\ Allowed(U, i) # {} /\ Allowed(U, L + i) # {}
             /\ Allowed(U, i) = 0..i
             /\ Allowed(U, L + i) = (0..(i - 1)) \cup {L + i}

\* both masks were built and arc position 0 attends to itself only
C10_Witness ==
  /\ h_mask[TRUE] # None
  /\ h_mask[FALSE] # None
  /\ Len(h_ids[1]) >= 2
  /\ Allowed(h_mask[TRUE], 0) = {Len(h_ids[1])}

====
